---- MODULE Spec2Model ----
(***************************************************************************)
(* A model of scripts/update_can_ips.py: the prefix fetcher, the subnet    *)
(* deduplicator, the rule-line formatter, the section splicer and main.    *)
(*                                                                         *)
(* Text is modelled as a sequence of tokens (a token is a TLA+ string): a  *)
(* line is a sequence of tokens, and a file's content is a sequence of     *)
(* tokens in which "\n" ends a line.  IP addresses are scaled down from    *)
(* 32 and 128 bits to AddrBits bits; an address prints as its bits, most   *)
(* significant first, separated by "." (IPv4) or ":" (IPv6).               *)
(***************************************************************************)
EXTENDS Integers, Sequences, FiniteSets, TLC

VARIABLES
    pc,          \* where the modelled run stands
    nets,        \* dedupe_subnets: the input networks
    deduped,     \* dedupe_subnets(nets)
    deduped2,    \* dedupe_subnets(deduped)
    prefixes,    \* build_lines / main: the prefix strings of one section
    new_block,   \* build_lines / main: the rule lines built from prefixes
    raised,      \* the exception raised, [class, msg]; class "" when none
    lines,       \* replace_section / main: the file's lines in memory
    orig,        \* the lines before the first replace_section
    blocks,      \* the new block of each section header
    order,       \* the headers spliced so far, in the order they were spliced
    last,        \* the arguments of the last replace_section call
    disk,        \* FILE_PATH on disk: [exists, text]
    disk0,       \* FILE_PATH on disk when the current run started
    run,         \* the number of the current run of the script
    registry,    \* what the registry answers for each ASN, once asked
    sec,         \* main: the index of the current section of SECTION_ASNS
    asn_i,       \* main: the index of the current ASN of the section
    fetched,     \* main: the responses fetched for the current section
    writes,      \* the number of times the current run wrote FILE_PATH
    stderr,      \* the lines the current run printed to the error stream
    exit_status  \* the exit status of the finished run

vars == <<pc, nets, deduped, deduped2, prefixes, new_block, raised,
          lines, orig, blocks, order, last,
          disk, disk0, run, registry, sec, asn_i, fetched, writes, stderr, exit_status>>

dedupe_vars == <<nets, deduped, deduped2>>
build_vars == <<prefixes, new_block>>
splice_vars == <<lines, orig, blocks, order, last>>
main_vars == <<disk, disk0, run, registry, sec, asn_i, fetched, writes, stderr, exit_status>>

(***************************************************************************)
(* Bounds                                                                  *)
(***************************************************************************)
AddrBits == 2
MaxNets == 3
MaxPrefixes == 2
MaxLines == 4
MaxFileLines == 4

(***************************************************************************)
(* ipaddress networks                                                      *)
(***************************************************************************)
RECURSIVE Pow2(_)
Pow2(n) == IF n = 0 THEN 1 ELSE 2 * Pow2(n - 1)

Versions == {4, 6}

max_prefixlen(version) == AddrBits

\* The networks ipaddress can represent: the host bits of the address are zero.
Networks ==
    { [version |-> v, addr |-> a * Pow2(max_prefixlen(v) - l), prefixlen |-> l] :
        <<v, l, a>> \in { t \in Versions \X (0..AddrBits) \X (0..(Pow2(AddrBits) - 1)) :
                            t[3] < Pow2(t[2]) } }

network_address(n) == n.addr

broadcast_address(n) == n.addr + Pow2(max_prefixlen(n.version) - n.prefixlen) - 1

\* A containment test that forgets to compare the upper ends of the ranges.
subnet_of_lower_end_only(a, b) ==
    network_address(b) <= network_address(a)

\* a.subnet_of(b): numeric range containment.
subnet_of(a, b) ==
    /\ network_address(b) <= network_address(a)
    /\ broadcast_address(b) >= broadcast_address(a)

(***************************************************************************)
(* sorted(xs, key=...): a stable sort on 3-tuple keys                      *)
(***************************************************************************)
TupleLess(a, b) ==
    \/ a[1] < b[1]
    \/ a[1] = b[1] /\ a[2] < b[2]
    \/ a[1] = b[1] /\ a[2] = b[2] /\ a[3] < b[3]

InsertAt(s, p, i) == SubSeq(s, 1, i) \o <<p>> \o SubSeq(s, i + 1, Len(s))

\* s is a sequence of <<key, value>> pairs sorted by key; p goes after every
\* pair whose key is not greater than its own.
InsertSorted(s, p) ==
    InsertAt(s, p, Cardinality({ k \in 1..Len(s) : ~TupleLess(p[1], s[k][1]) }))

RECURSIVE SortPairs(_)
SortPairs(s) ==
    IF s = <<>> THEN <<>>
    ELSE InsertSorted(SortPairs(SubSeq(s, 1, Len(s) - 1)), s[Len(s)])

\* A first sort key that puts the longest prefixes (the subnets) first.
KeyPrefixlenDescending(n) == <<n.version, 0 - n.prefixlen, network_address(n)>>

KeyPrefixlenFirst(n) == <<n.version, n.prefixlen, network_address(n)>>

KeyAddressFirst(n) == <<n.version, network_address(n), n.prefixlen>>

Values(pairs) == [k \in 1..Len(pairs) |-> pairs[k][2]]

\* sorted(nets, key=lambda n: (n.version, n.prefixlen, int(n.network_address)))
sorted_prefixlen_first(s) ==
    Values(SortPairs([k \in 1..Len(s) |-> <<KeyPrefixlenFirst(s[k]), s[k]>>]))

\* sorted(kept, key=lambda n: (n.version, int(n.network_address), n.prefixlen))
sorted_address_first(s) ==
    Values(SortPairs([k \in 1..Len(s) |-> <<KeyAddressFirst(s[k]), s[k]>>]))

(***************************************************************************)
(* dedupe_subnets                                                          *)
(***************************************************************************)
covered_by(net, kept) ==
    \E k \in 1..Len(kept) : net.version = kept[k].version /\ subnet_of(net, kept[k])

RECURSIVE keep_loop(_, _)
keep_loop(nets_sorted, kept) ==
    IF nets_sorted = <<>> THEN kept
    ELSE keep_loop(Tail(nets_sorted),
                   IF covered_by(Head(nets_sorted), kept)
                   THEN kept
                   ELSE Append(kept, Head(nets_sorted)))

\* A dedupe_subnets that forgets the first sort and walks the input as given.
dedupe_subnets_unsorted(ns) ==
    sorted_address_first(keep_loop(ns, <<>>))

dedupe_subnets(ns) ==
    sorted_address_first(keep_loop(sorted_prefixlen_first(ns), <<>>))


(***************************************************************************)
(* Text: str(network) and ipaddress.ip_network(text, strict=False)         *)
(***************************************************************************)
NoException == [class |-> "", msg |-> ""]

Exception(class, msg) == [class |-> class, msg |-> msg]

Separator(version) == IF version = 4 THEN "." ELSE ":"

Bit(addr, w, k) == (addr \div Pow2(w - k)) % 2

\* str(network_address): the AddrBits bits joined by the version's separator.
address_text(version, addr) ==
    LET w == max_prefixlen(version)
    IN  [k \in 1..(2 * w - 1) |->
            IF k % 2 = 1 THEN ToString(Bit(addr, w, (k + 1) \div 2))
            ELSE Separator(version)]

\* str(net): "<network_address>/<prefixlen>".
network_text(n) == address_text(n.version, n.addr) \o <<"/", ToString(n.prefixlen)>>

IsAddressText(t, version) ==
    /\ Len(t) = 2 * max_prefixlen(version) - 1
    /\ \A k \in 1..Len(t) :
          IF k % 2 = 1 THEN t[k] \in {"0", "1"} ELSE t[k] = Separator(version)

RECURSIVE AddressValue(_, _)
AddressValue(t, acc) ==
    IF t = <<>> THEN acc
    ELSE IF Head(t) \in {"0", "1"}
         THEN AddressValue(Tail(t), 2 * acc + (IF Head(t) = "1" THEN 1 ELSE 0))
         ELSE AddressValue(Tail(t), acc)

NotANetwork == [ok |-> FALSE, net |-> [version |-> 0, addr |-> 0, prefixlen |-> 0]]

\* The network of an address value and a prefix length: the host bits beyond
\* the prefix length are masked off (strict=False).
masked_network(version, value, prefixlen) ==
    [ok |-> TRUE,
     net |-> [version |-> version,
              addr |-> value - (value % Pow2(max_prefixlen(version) - prefixlen)),
              prefixlen |-> prefixlen]]

\* The prefix length: the maximum when the text has no "/<len>", else the
\* number after the slash, which must lie in 0..max_prefixlen.
network_of_version(addr_part, len_part, has_len, version) ==
    IF ~has_len
    THEN masked_network(version, AddressValue(addr_part, 0), max_prefixlen(version))
    ELSE IF \E l \in 0..max_prefixlen(version) : len_part = <<ToString(l)>>
         THEN masked_network(version, AddressValue(addr_part, 0),
                             CHOOSE l \in 0..max_prefixlen(version) : len_part = <<ToString(l)>>)
         ELSE NotANetwork

network_of_parts(addr_part, len_part, has_len) ==
    IF \E v \in Versions : IsAddressText(addr_part, v)
    THEN network_of_version(addr_part, len_part, has_len,
                            CHOOSE v \in Versions : IsAddressText(addr_part, v))
    ELSE NotANetwork

split_at(p, cut) == network_of_parts(SubSeq(p, 1, cut - 1), SubSeq(p, cut + 1, Len(p)), TRUE)

split_netmask(p, slashes) ==
    IF slashes = {} THEN network_of_parts(p, <<>>, FALSE)
    ELSE IF Cardinality(slashes) > 1 THEN NotANetwork
    ELSE split_at(p, CHOOSE k \in slashes : TRUE)

\* ip_network(p, strict=False): [ok, net]; ok is FALSE where Python raises
\* ValueError.
ip_network(p) == split_netmask(p, { k \in 1..Len(p) : p[k] = "/" })

(***************************************************************************)
(* build_lines                                                             *)
(***************************************************************************)
\* A formatter with the version test inverted.
rule_line_inverted(net) ==
    IF net.version = 6
    THEN <<"IP-CIDR", ",">> \o network_text(net) \o <<",", "no-resolve">>
    ELSE <<"IP-CIDR6", ",">> \o network_text(net) \o <<",", "no-resolve">>

rule_line(net) ==
    IF net.version = 4
    THEN <<"IP-CIDR", ",">> \o network_text(net) \o <<",", "no-resolve">>
    ELSE <<"IP-CIDR6", ",">> \o network_text(net) \o <<",", "no-resolve">>

format_lines(out) == [k \in 1..Len(out) |-> rule_line(out[k])]

build_from(parsed) ==
    IF \E k \in 1..Len(parsed) : ~parsed[k].ok
    THEN [raised |-> Exception("ValueError", "does not appear to be an IPv4 or IPv6 network"),
          lines |-> <<>>]
    ELSE [raised |-> NoException,
          lines |-> format_lines(dedupe_subnets([k \in 1..Len(parsed) |-> parsed[k].net]))]

\* [raised, lines]: ValueError when a prefix does not parse.
build_lines(ps) == build_from([k \in 1..Len(ps) |-> ip_network(ps[k])])

(***************************************************************************)
(* replace_section                                                         *)
(***************************************************************************)
\* SECTION_ASNS, scaled down to two sections: the first pools two ASNs, as
\* "Freedom Mobile" does, the second has one.
SECTION_ASNS ==
    << [header |-> "A", asns |-> <<"AS1", "AS2">>],
       [header |-> "B", asns |-> <<"AS3">>] >>

Headers == { SECTION_ASNS[k].header : k \in 1..Len(SECTION_ASNS) }

\* f"# {header}"
header_line(header) == <<"# ", header>>

\* A marker test that accepts any line beginning with "#".
startswith_hash(line) ==
    /\ Len(line) >= 1
    /\ line[1] \in {"# ", "#x"}

\* line.startswith("# ")
startswith_hash_space(line) ==
    /\ Len(line) >= 1
    /\ line[1] = "# "

\* lines.index(x): the first position holding x; 0 where Python raises ValueError.
index(ls, x) ==
    IF \E k \in 1..Len(ls) : ls[k] = x
    THEN CHOOSE k \in 1..Len(ls) : ls[k] = x /\ \A j \in 1..(k - 1) : ls[j] # x
    ELSE 0

\* A scan that also takes a blank line for the end of the section.
RECURSIVE scan_end_at_blank(_, _)
scan_end_at_blank(ls, end_idx) ==
    IF end_idx <= Len(ls) /\ ~startswith_hash_space(ls[end_idx]) /\ ls[end_idx] # <<>>
    THEN scan_end_at_blank(ls, end_idx + 1)
    ELSE end_idx

\* while end_idx < len(lines) and not lines[end_idx].startswith("# "): end_idx += 1
RECURSIVE scan_end(_, _)
scan_end(ls, end_idx) ==
    IF end_idx <= Len(ls) /\ ~startswith_hash_space(ls[end_idx])
    THEN scan_end(ls, end_idx + 1)
    ELSE end_idx

\* A splice that is off by one at the far end and swallows the next header.
splice_past_end(ls, start_idx, end_idx, new_block_) ==
    SubSeq(ls, 1, start_idx) \o (new_block_ \o << <<>> >>) \o SubSeq(ls, end_idx + 1, Len(ls))

\* lines[: start_idx + 1] + (new_block + [""]) + lines[end_idx:]
splice(ls, start_idx, end_idx, new_block_) ==
    SubSeq(ls, 1, start_idx) \o (new_block_ \o << <<>> >>) \o SubSeq(ls, end_idx, Len(ls))

replace_at(ls, start_idx, new_block_) ==
    IF start_idx = 0
    THEN [raised |-> Exception("SystemExit", "Missing section header"), lines |-> ls]
    ELSE [raised |-> NoException,
          lines |-> splice(ls, start_idx, scan_end(ls, start_idx + 1), new_block_)]

\* [raised, lines]: SystemExit when the header line is absent.
replace_section(ls, header, new_block_) ==
    replace_at(ls, index(ls, header_line(header)), new_block_)

(***************************************************************************)
(* fetch_prefixes                                                          *)
(***************************************************************************)
EmptyDict == <<>>

\* d.get(key, default)
dict_get(d, key, default) == IF key \in DOMAIN d THEN d[key] ELSE default

\* A lookup that takes the key for granted: d[key], KeyError when absent.
prefix_entries_strict(data) ==
    IF "data" \in DOMAIN data /\ "prefixes" \in DOMAIN data["data"]
    THEN [raised |-> NoException, value |-> data["data"]["prefixes"]]
    ELSE [raised |-> Exception("KeyError", "data"), value |-> <<>>]

\* data.get("data", {}).get("prefixes", [])
prefix_entries(data) ==
    [raised |-> NoException,
     value |-> dict_get(dict_get(data, "data", EmptyDict), "prefixes", <<>>)]

\* [p.get("prefix") for p in entries], then [p for p in prefixes if p]: an
\* entry without the key gives None, and None and "" are both dropped.
RECURSIVE truthy_prefixes(_)
truthy_prefixes(entries) ==
    IF entries = <<>> THEN <<>>
    ELSE IF "prefix" \in DOMAIN Head(entries) /\ Head(entries)["prefix"] # <<>>
         THEN <<Head(entries)["prefix"]>> \o truthy_prefixes(Tail(entries))
         ELSE truthy_prefixes(Tail(entries))

prefixes_of(entries) ==
    IF entries.raised = NoException
    THEN [raised |-> NoException, value |-> truthy_prefixes(entries.value)]
    ELSE entries

\* [raised, value] for the registry's response resp: urlopen raises URLError,
\* json.load raises JSONDecodeError on a body that is no JSON.
fetch_prefixes(resp) ==
    IF resp.kind = "URLError"
    THEN [raised |-> Exception("URLError", "urlopen error"), value |-> <<>>]
    ELSE IF resp.kind = "invalid"
    THEN [raised |-> Exception("JSONDecodeError", "Expecting value"), value |-> <<>>]
    ELSE prefixes_of(prefix_entries(resp.body))

(***************************************************************************)
(* File text: str.splitlines, "\n".join                                    *)
(***************************************************************************)
\* text.splitlines(): a final line needs no "\n", and a "\n" at the end of
\* the text opens no further line.
RECURSIVE split_from(_, _, _)
split_from(text, cur, acc) ==
    IF text = <<>> THEN (IF cur = <<>> THEN acc ELSE Append(acc, cur))
    ELSE IF Head(text) = "\n" THEN split_from(Tail(text), <<>>, Append(acc, cur))
    ELSE split_from(Tail(text), Append(cur, Head(text)), acc)

splitlines(text) == split_from(text, <<>>, <<>>)

\* sep.join(lines)
RECURSIVE join(_, _)
join(sep, ls) ==
    IF ls = <<>> THEN <<>>
    ELSE IF Len(ls) = 1 THEN ls[1]
    ELSE ls[1] \o <<sep>> \o join(sep, Tail(ls))

\* "\n".join(lines) + "\n"
file_text(ls) == join("\n", ls) \o <<"\n">>

(***************************************************************************)
(* The __main__ block                                                      *)
(***************************************************************************)
\* A guard that catches BaseException, SystemExit included.
except_base_exception(class) == TRUE

\* except Exception: SystemExit derives from BaseException and passes by.
except_exception(class) == class # "SystemExit"

\* What reaches the error stream when the exception exc leaves main: the
\* guard's line when it catches exc, then what the interpreter prints for an
\* exception nobody handled, a traceback, or the message alone for SystemExit.
error_stream(exc) ==
    (IF except_exception(exc.class)
     THEN << <<"update_can_ips.py failed: ", exc.msg>> >>
     ELSE <<>>)
    \o (IF exc.class = "SystemExit"
        THEN << <<exc.msg>> >>
        ELSE << <<"Traceback (most recent call last):">>, <<exc.class, ": ", exc.msg>> >>)

(***************************************************************************)
(* SpecDedupe: dedupe_subnets on every bounded list of networks, then on   *)
(* its own output.                                                         *)
(***************************************************************************)
SeqsUpTo(S, n) == UNION { [1..k -> S] : k \in 0..n }

InitDedupe ==
    /\ pc = "input"
    /\ nets \in SeqsUpTo(Networks, MaxNets)
    /\ deduped = <<>>
    /\ deduped2 = <<>>
    /\ prefixes = <<>>
    /\ new_block = <<>>
    /\ raised = NoException
    /\ lines = <<>>
    /\ orig = <<>>
    /\ blocks = <<>>
    /\ order = <<>>
    /\ last = <<>>
    /\ disk = [exists |-> FALSE, text |-> <<>>]
    /\ disk0 = disk
    /\ run = 0
    /\ registry = <<>>
    /\ sec = 0
    /\ asn_i = 0
    /\ fetched = <<>>
    /\ writes = 0
    /\ stderr = <<>>
    /\ exit_status = 0

Dedupe ==
    /\ pc = "input"
    /\ deduped' = dedupe_subnets(nets)
    /\ pc' = "deduped"
    /\ UNCHANGED <<nets, deduped2, build_vars, raised, splice_vars, main_vars>>

DedupeAgain ==
    /\ pc = "deduped"
    /\ deduped2' = dedupe_subnets(deduped)
    /\ pc' = "deduped_twice"
    /\ UNCHANGED <<nets, deduped, build_vars, raised, splice_vars, main_vars>>

NextDedupe == Dedupe \/ DedupeAgain

SpecDedupe == InitDedupe /\ [][NextDedupe]_vars

(***************************************************************************)
(* SpecBuild: build_lines on every bounded list of prefix strings          *)
(***************************************************************************)
\* What the registry may hand over as a prefix: every address with every
\* prefix length (host bits set or not), a bare address, and two strings
\* that are no network.
PrefixStrings ==
    { address_text(v, a) \o <<"/", ToString(l)>> :
        <<v, a, l>> \in Versions \X (0..(Pow2(AddrBits) - 1)) \X (0..AddrBits) }
    \cup { address_text(v, 0) : v \in Versions }
    \cup { <<"x">>, address_text(4, 0) \o <<"/", ToString(AddrBits + 1)>> }

InitBuild ==
    /\ pc = "input"
    /\ prefixes \in SeqsUpTo(PrefixStrings, MaxPrefixes)
    /\ new_block = <<>>
    /\ raised = NoException
    /\ nets = <<>>
    /\ deduped = <<>>
    /\ deduped2 = <<>>
    /\ lines = <<>>
    /\ orig = <<>>
    /\ blocks = <<>>
    /\ order = <<>>
    /\ last = <<>>
    /\ disk = [exists |-> FALSE, text |-> <<>>]
    /\ disk0 = disk
    /\ run = 0
    /\ registry = <<>>
    /\ sec = 0
    /\ asn_i = 0
    /\ fetched = <<>>
    /\ writes = 0
    /\ stderr = <<>>
    /\ exit_status = 0

BuildLines ==
    /\ pc = "input"
    /\ \E r \in {build_lines(prefixes)} :
           /\ new_block' = r.lines
           /\ raised' = r.raised
           /\ pc' = IF r.raised = NoException THEN "built" ELSE "raised"
    /\ UNCHANGED <<prefixes, dedupe_vars, splice_vars, main_vars>>

NextBuild == BuildLines

SpecBuild == InitBuild /\ [][NextBuild]_vars

(***************************************************************************)
(* SpecSplice: replace_section once per section, in every order, on every  *)
(* bounded file                                                            *)
(***************************************************************************)
Rule4 == rule_line([version |-> 4, addr |-> 0, prefixlen |-> 0])

Rule6 == rule_line([version |-> 6, addr |-> 0, prefixlen |-> 1])

\* The lines a file is made of: the two configured headers, another header,
\* a blank line, an old rule and a comment without the space.
FileLines ==
    { header_line("A"), header_line("B"), header_line("Z"), <<>>, <<"old">>, <<"#x">> }

\* The new blocks: empty, rule lines, and one that holds a header line.
NewBlocks == { <<>>, <<Rule4>>, <<Rule4, Rule6>>, <<header_line("B")>> }

InitSplice ==
    /\ pc = "splicing"
    /\ lines \in SeqsUpTo(FileLines, MaxLines)
    /\ orig = lines
    /\ blocks \in [Headers -> NewBlocks]
    /\ order = <<>>
    /\ last = <<>>
    /\ raised = NoException
    /\ nets = <<>>
    /\ deduped = <<>>
    /\ deduped2 = <<>>
    /\ prefixes = <<>>
    /\ new_block = <<>>
    /\ disk = [exists |-> FALSE, text |-> <<>>]
    /\ disk0 = disk
    /\ run = 0
    /\ registry = <<>>
    /\ sec = 0
    /\ asn_i = 0
    /\ fetched = <<>>
    /\ writes = 0
    /\ stderr = <<>>
    /\ exit_status = 0

ReplaceSection(header) ==
    /\ pc = "splicing"
    /\ \A k \in 1..Len(order) : order[k] # header
    /\ \E r \in {replace_section(lines, header, blocks[header])} :
           /\ raised' = r.raised
           /\ lines' = r.lines
           /\ pc' = IF r.raised = NoException THEN "splicing" ELSE "raised"
    /\ order' = Append(order, header)
    /\ last' = <<[lines |-> lines, header |-> header, new_block |-> blocks[header]]>>
    /\ UNCHANGED <<orig, blocks, dedupe_vars, build_vars, main_vars>>

NextSplice == \E header \in Headers : ReplaceSection(header)

SpecSplice == InitSplice /\ [][NextSplice]_vars

(***************************************************************************)
(* SpecMain: a run of the script on every bounded file and registry, and   *)
(* a second run after a run that succeeded.  The registry answers an ASN   *)
(* the same way every time it is asked.                                    *)
(***************************************************************************)
ASNs == UNION { { SECTION_ASNS[k].asns[j] : j \in 1..Len(SECTION_ASNS[k].asns) } :
                k \in 1..Len(SECTION_ASNS) }

Unasked == [kind |-> "unasked"]

\* An IPv4 prefix with a host bit set, a subnet of it, and an IPv6 prefix.
Prefix4 == address_text(4, 1) \o <<"/", "1">>

Prefix4Subnet == network_text([version |-> 4, addr |-> 0, prefixlen |-> AddrBits])

Prefix6 == network_text([version |-> 6, addr |-> 0, prefixlen |-> 0])

JsonBody(body) == [kind |-> "json", body |-> body]

\* The registry's answers: no answer, a body that is no JSON, a body without
\* "data", one without "prefixes", entries with the prefix missing or empty,
\* entries with prefixes, and an entry whose prefix is no CIDR.
Responses ==
    { [kind |-> "URLError"],
      [kind |-> "invalid"],
      JsonBody([status |-> "ok"]),
      JsonBody([data |-> [resource |-> "AS"]]),
      JsonBody([data |-> [prefixes |-> << [timelines |-> <<>>], [prefix |-> <<>>] >>]]),
      JsonBody([data |-> [prefixes |-> << [prefix |-> Prefix6], [prefix |-> Prefix4Subnet],
                                          [timelines |-> <<>>], [prefix |-> Prefix4] >>]]),
      JsonBody([data |-> [prefixes |-> << [prefix |-> <<"x">>] >>]]) }

MainFileLines == { header_line("A"), header_line("B"), <<>>, <<"old">> }

\* The file's text: lines joined by "\n", with or without a "\n" at the end.
FileTexts ==
    { join("\n", ls) \o tail_ :
        <<ls, tail_>> \in SeqsUpTo(MainFileLines, MaxFileLines) \X { <<>>, <<"\n">> } }

InitMain ==
    /\ pc = "start"
    /\ disk \in { [exists |-> FALSE, text |-> <<>>] }
                \cup { [exists |-> TRUE, text |-> t] : t \in FileTexts }
    /\ disk0 = disk
    /\ run = 1
    /\ registry = [a \in ASNs |-> Unasked]
    /\ sec = 1
    /\ asn_i = 1
    /\ fetched = <<>>
    /\ writes = 0
    /\ stderr = <<>>
    /\ exit_status = 0
    /\ raised = NoException
    /\ lines = <<>>
    /\ orig = <<>>
    /\ blocks = <<>>
    /\ order = <<>>
    /\ last = <<>>
    /\ prefixes = <<>>
    /\ new_block = <<>>
    /\ nets = <<>>
    /\ deduped = <<>>
    /\ deduped2 = <<>>

\* main, lines 74-77: the existence test and the read.
MainStart ==
    /\ pc = "start"
    /\ IF ~disk.exists
       THEN /\ raised' = Exception("SystemExit", "Missing file")
            /\ pc' = "raised"
            /\ UNCHANGED <<lines, orig>>
       ELSE /\ lines' = splitlines(disk.text)
            /\ orig' = splitlines(disk.text)
            /\ pc' = "fetch"
            /\ UNCHANGED raised
    /\ UNCHANGED <<dedupe_vars, build_vars, blocks, order, last, main_vars>>

\* main, lines 80-82: one fetch_prefixes call and the extend.
MainFetch ==
    /\ pc = "fetch"
    /\ \E resp \in Responses :
          /\ registry[SECTION_ASNS[sec].asns[asn_i]] \in {Unasked, resp}
          /\ registry' = [registry EXCEPT ![SECTION_ASNS[sec].asns[asn_i]] = resp]
          /\ fetched' = IF asn_i = 1 THEN <<resp>> ELSE Append(fetched, resp)
          /\ \E r \in {fetch_prefixes(resp)} :
                IF r.raised # NoException
                THEN /\ raised' = r.raised
                     /\ pc' = "raised"
                     /\ UNCHANGED <<prefixes, asn_i>>
                ELSE /\ prefixes' = (IF asn_i = 1 THEN <<>> ELSE prefixes) \o r.value
                     /\ asn_i' = asn_i + 1
                     /\ pc' = IF asn_i = Len(SECTION_ASNS[sec].asns) THEN "build" ELSE "fetch"
                     /\ UNCHANGED raised
    /\ UNCHANGED <<dedupe_vars, new_block, splice_vars,
                   disk, disk0, run, sec, writes, stderr, exit_status>>

\* main, line 83.
MainBuild ==
    /\ pc = "build"
    /\ \E r \in {build_lines(prefixes)} :
          /\ new_block' = r.lines
          /\ raised' = r.raised
          /\ pc' = IF r.raised = NoException THEN "splice" ELSE "raised"
    /\ UNCHANGED <<dedupe_vars, prefixes, splice_vars, main_vars>>

\* A main that writes the file after each section.
MainSpliceAndWrite ==
    /\ pc = "splice"
    /\ \E r \in {replace_section(lines, SECTION_ASNS[sec].header, new_block)} :
          /\ raised' = r.raised
          /\ lines' = r.lines
          /\ pc' = IF r.raised # NoException THEN "raised"
                   ELSE IF sec = Len(SECTION_ASNS) THEN "write" ELSE "fetch"
          /\ IF r.raised = NoException
             THEN /\ disk' = [exists |-> TRUE, text |-> file_text(r.lines)]
                  /\ writes' = writes + 1
             ELSE UNCHANGED <<disk, writes>>
          /\ IF r.raised = NoException
             THEN /\ order' = Append(order, SECTION_ASNS[sec].header)
                  /\ sec' = sec + 1
                  /\ asn_i' = 1
             ELSE UNCHANGED <<order, sec, asn_i>>
    /\ last' = <<[lines |-> lines, header |-> SECTION_ASNS[sec].header,
                  new_block |-> new_block, fetched |-> fetched]>>
    /\ UNCHANGED <<dedupe_vars, build_vars, orig, blocks,
                   disk0, run, registry, fetched, stderr, exit_status>>

\* main, line 84, and the step to the next section.
MainSplice ==
    /\ pc = "splice"
    /\ \E r \in {replace_section(lines, SECTION_ASNS[sec].header, new_block)} :
          /\ raised' = r.raised
          /\ lines' = r.lines
          /\ pc' = IF r.raised # NoException THEN "raised"
                   ELSE IF sec = Len(SECTION_ASNS) THEN "write" ELSE "fetch"
          /\ IF r.raised = NoException
             THEN /\ order' = Append(order, SECTION_ASNS[sec].header)
                  /\ sec' = sec + 1
                  /\ asn_i' = 1
             ELSE UNCHANGED <<order, sec, asn_i>>
    /\ last' = <<[lines |-> lines, header |-> SECTION_ASNS[sec].header,
                  new_block |-> new_block, fetched |-> fetched]>>
    /\ UNCHANGED <<dedupe_vars, build_vars, orig, blocks,
                   disk, disk0, run, registry, fetched, writes, stderr, exit_status>>

\* main, line 86.
MainWrite ==
    /\ pc = "write"
    /\ disk' = [exists |-> TRUE, text |-> file_text(lines)]
    /\ writes' = writes + 1
    /\ pc' = "returned"
    /\ UNCHANGED <<dedupe_vars, build_vars, raised, splice_vars,
                   disk0, run, registry, sec, asn_i, fetched, stderr, exit_status>>

\* Lines 89-94 and the interpreter's exit: status 0 when main returned, and
\* status 1 with the error stream written when an exception left it.
MainExit ==
    /\ pc \in {"returned", "raised"}
    /\ stderr' = IF pc = "raised" THEN error_stream(raised) ELSE <<>>
    /\ exit_status' = IF pc = "raised" THEN 1 ELSE 0
    /\ pc' = "exit"
    /\ UNCHANGED <<dedupe_vars, build_vars, raised, splice_vars,
                   disk, disk0, run, registry, sec, asn_i, fetched, writes>>

\* The script is started again after a run that succeeded.
RunAgain ==
    /\ pc = "exit"
    /\ run = 1
    /\ exit_status = 0
    /\ run' = 2
    /\ pc' = "start"
    /\ disk0' = disk
    /\ sec' = 1
    /\ asn_i' = 1
    /\ fetched' = <<>>
    /\ writes' = 0
    /\ stderr' = <<>>
    /\ lines' = <<>>
    /\ orig' = <<>>
    /\ order' = <<>>
    /\ last' = <<>>
    /\ prefixes' = <<>>
    /\ new_block' = <<>>
    /\ UNCHANGED <<dedupe_vars, raised, blocks, disk, registry, exit_status>>

NextMain ==
    \/ MainStart
    \/ MainFetch
    \/ MainBuild
    \/ MainSplice
    \/ MainWrite
    \/ MainExit
    \/ RunAgain

SpecMain == InitMain /\ [][NextMain]_vars

(***************************************************************************)
(* Properties of dedupe_subnets, checked under SpecDedupe                  *)
(***************************************************************************)
\* The addresses of a network: those that agree with it on its first
\* prefixlen bits, tagged with the IP version.
Hosts(n) ==
    LET size == Pow2(max_prefixlen(n.version) - n.prefixlen)
    IN  { <<n.version, a>> : a \in { b \in 0..(Pow2(max_prefixlen(n.version)) - 1) :
                                        b \div size = n.addr \div size } }

CoveredBy(s) == UNION { Hosts(s[k]) : k \in 1..Len(s) }

Range(s) == { s[k] : k \in 1..Len(s) }

\* C1: the list dedupe_subnets returns is an antichain under containment: at
\* two distinct positions holding networks of the same IP version, neither
\* network's addresses are contained in (or equal to) the other's.
C1_Antichain ==
    pc = "deduped" =>
        \A i, j \in 1..Len(deduped) :
            (i # j /\ deduped[i].version = deduped[j].version)
                => ~(Hosts(deduped[i]) \subseteq Hosts(deduped[j]))

\* The input lists a subnet before its supernet, and two networks of one
\* version are kept.
C1_Witness ==
    /\ pc = "deduped"
    /\ \E i, j \in 1..Len(nets) :
          i < j /\ nets[i] # nets[j] /\ Hosts(nets[i]) \subseteq Hosts(nets[j])
    /\ \E i, j \in 1..Len(deduped) : i # j /\ deduped[i].version = deduped[j].version

\* C2: the addresses covered by the kept networks are exactly the addresses
\* covered by the input networks, per IP version, and every kept network is
\* one of the input networks.
C2_CoveragePreserved ==
    pc = "deduped" =>
        /\ CoveredBy(deduped) = CoveredBy(nets)
        /\ Range(deduped) \subseteq Range(nets)

\* A redundant subnet was dropped and more than one network is kept.
C2_Witness ==
    /\ pc = "deduped"
    /\ Len(deduped) = 2
    /\ Len(nets) = 3
    /\ Cardinality(Range(nets)) = 3

\* C5: dedupe_subnets is idempotent: applied to its own output it returns
\* the same list, the same networks in the same order.
C5_Idempotent ==
    pc = "deduped_twice" => deduped2 = deduped

\* The first pass dropped something and kept two networks; the second pass ran.
C5_Witness ==
    /\ pc = "deduped_twice"
    /\ Len(deduped) = 2
    /\ Len(nets) > Len(deduped)
    /\ \E i, j \in 1..Len(nets) :
          i < j /\ nets[i] # nets[j] /\ Hosts(nets[i]) \subseteq Hosts(nets[j])

(***************************************************************************)
(* Properties of build_lines, checked under SpecBuild                      *)
(***************************************************************************)
\* The network text of a rule line: what stands between its two commas.
LineNetwork(line) == ip_network(SubSeq(line, 3, Len(line) - 2))

NetKey(n) == <<n.version, n.addr, n.prefixlen>>

\* The lines of block are the rule lines of the networks retained, one each
\* and in their order; read[k] is the network that line k's text parses to.
LinesMatch(block, retained, read) ==
    /\ Len(block) = Len(retained)
    /\ \A k \in 1..Len(block) :
          /\ Len(block[k]) >= 4
          /\ block[k][2] = ","
          /\ SubSeq(block[k], Len(block[k]) - 1, Len(block[k])) = <<",", "no-resolve">>
          /\ read[k].ok
          /\ read[k].net = retained[k]
          /\ \E j \in 1..Len(block[k]) : block[k][j] \in {".", ":"}
          /\ block[k][1] = "IP-CIDR" <=> \E j \in 1..Len(block[k]) : block[k][j] = "."
          /\ block[k][1] = "IP-CIDR6" <=> \E j \in 1..Len(block[k]) : block[k][j] = ":"
    /\ \A k \in 1..(Len(block) - 1) : TupleLess(NetKey(read[k].net), NetKey(read[k + 1].net))

\* C6: build_lines emits one line per network the dedup stage retains, in
\* the dedup stage's order (version, then address, then prefix length), and
\* each line is 'IP-CIDR,<network>,no-resolve' for an IPv4 network and
\* 'IP-CIDR6,<network>,no-resolve' for an IPv6 one, never the other tag.
C6_FormatMatchesVersion ==
    pc = "built" =>
        LinesMatch(new_block,
                   dedupe_subnets([k \in 1..Len(prefixes) |-> ip_network(prefixes[k]).net]),
                   [k \in 1..Len(new_block) |-> LineNetwork(new_block[k])])

\* An IPv6 prefix listed before an IPv4 one with host bits set: two lines
\* come out, the IPv4 one first.
C6_Witness ==
    /\ pc = "built"
    /\ Len(new_block) = 2
    /\ new_block[1][1] = "IP-CIDR"
    /\ new_block[2][1] = "IP-CIDR6"
    /\ ip_network(prefixes[1]).net.version = 6
    /\ \E j \in 1..Len(prefixes[2]) : prefixes[2][j] = "/"
    /\ network_text(ip_network(prefixes[2]).net) # prefixes[2]

(***************************************************************************)
(* Properties of replace_section, checked under SpecSplice                 *)
(***************************************************************************)
BeginsSection(line) == Len(line) >= 1 /\ line[1] = "# "

\* The result new_ of one call on old with block b, stated position by
\* position: h is the first position of the header line and n the first later
\* position of a line beginning with "# " (or one past the end).
SplicedAt(old, new_, b, h, n) ==
    /\ Len(new_) = h + Len(b) + 1 + (Len(old) - n + 1)
    /\ \A k \in 1..h : new_[k] = old[k]
    /\ \A k \in 1..Len(b) : new_[h + k] = b[k]
    /\ new_[h + Len(b) + 1] = <<>>
    /\ \A k \in n..Len(old) : new_[h + Len(b) + 1 + (k - n + 1)] = old[k]

\* C3: where the header line is present, replace_section returns the lines up
\* to and including the first header line unchanged, then the new block, then
\* exactly one empty line, then every line from the first later line that
\* begins with "# " to the end unchanged.
C3_SpliceBoundary ==
    (last # <<>> /\ \E k \in 1..Len(last[1].lines) :
                        last[1].lines[k] = <<"# ", last[1].header>>) =>
        /\ pc = "splicing"
        /\ \E h \in 1..Len(last[1].lines) :
              /\ last[1].lines[h] = <<"# ", last[1].header>>
              /\ \A k \in 1..(h - 1) : last[1].lines[k] # <<"# ", last[1].header>>
              /\ \E n \in (h + 1)..(Len(last[1].lines) + 1) :
                    /\ n <= Len(last[1].lines) => BeginsSection(last[1].lines[n])
                    /\ \A k \in (h + 1)..(n - 1) : ~BeginsSection(last[1].lines[k])
                    /\ SplicedAt(last[1].lines, lines, last[1].new_block, h, n)

\* A section with lines before its header, a body holding a "#x" comment and a
\* header after it was replaced by a non-empty block.
C3_Witness ==
    /\ last # <<>>
    /\ pc = "splicing"
    /\ last[1].new_block # <<>>
    /\ \E h \in 2..(Len(last[1].lines) - 2) :
          /\ last[1].lines[h] = <<"# ", last[1].header>>
          /\ last[1].lines[h + 1] = <<"#x">>
          /\ BeginsSection(last[1].lines[h + 2])

\* Each configured header occurs exactly once in the file, and no line of a
\* new block begins with "# ".
UniqueHeadersAndRuleBlocks ==
    /\ \A header \in Headers :
          Cardinality({ k \in 1..Len(orig) : orig[k] = <<"# ", header>> }) = 1
    /\ \A header \in Headers :
          \A k \in 1..Len(blocks[header]) : ~BeginsSection(blocks[header][k])

\* The sections spliced in the order of the table.
RECURSIVE InTableOrder(_, _)
InTableOrder(ls, k) ==
    IF k > Len(SECTION_ASNS) THEN ls
    ELSE InTableOrder(
            replace_section(ls, SECTION_ASNS[k].header, blocks[SECTION_ASNS[k].header]).lines,
            k + 1)

\* C8: with each configured header occurring exactly once and new blocks made
\* of rule lines, no order of the sections aborts and every order ends with
\* the same lines.
C8_OrderIndependent ==
    UniqueHeadersAndRuleBlocks =>
        /\ raised = NoException
        /\ Len(order) = Len(SECTION_ASNS) => lines = InTableOrder(orig, 1)

\* The sections were spliced against the order of the table, in a file that
\* lists them against it too, each with a body, with two different blocks.
C8_Witness ==
    /\ UniqueHeadersAndRuleBlocks
    /\ Len(order) = Len(SECTION_ASNS)
    /\ order[1] = SECTION_ASNS[2].header
    /\ orig = << <<"# ", "B">>, <<"old">>, <<"# ", "A">>, <<"old">> >>
    /\ blocks["A"] # <<>>
    /\ blocks["B"] # <<>>
    /\ blocks["A"] # blocks["B"]

(***************************************************************************)
(* Properties of a run, checked under SpecMain                             *)
(***************************************************************************)
TableHeaders == [k \in 1..Len(SECTION_ASNS) |-> SECTION_ASNS[k].header]

\* C4: a run writes the file at most once, and only after every configured
\* section was spliced; when any stage fails for any section the file on
\* disk is what it was before the run.
C4_WriteOnlyAtEnd ==
    /\ writes <= 1
    /\ (writes > 0 \/ disk # disk0) => (order = TableHeaders /\ raised = NoException)
    /\ raised # NoException => (writes = 0 /\ disk = disk0)

\* The first section was spliced in memory, the header of the second is
\* missing, and the run ended with the file as it was.
C4_Witness ==
    /\ pc = "exit"
    /\ raised = [class |-> "SystemExit", msg |-> "Missing section header"]
    /\ Len(order) = 1
    /\ lines # orig
    /\ disk.exists
    /\ disk.text # file_text(lines)
    /\ disk = disk0

\* C7 as stated: after any error the first line on the error stream is the
\* diagnostic prefixed with the program's name, and the exit status is not 0.
C7_AnyErrorPrintsPrefixedLine ==
    (pc = "exit" /\ raised # NoException) =>
        /\ stderr # <<>>
        /\ stderr[1] = <<"update_can_ips.py failed: ", raised.msg>>
        /\ exit_status # 0

\* C7, amended: every error ends the run with a non-zero exit status; a fetch
\* failure, a body that is no JSON and a CIDR parse error print the line
\* 'update_can_ips.py failed: ...' first, while a missing file and a missing
\* section header print their 'Missing ...' message alone, without the prefix.
C7_PrefixedUnlessSystemExit ==
    (pc = "exit" /\ raised # NoException) =>
        /\ exit_status # 0
        /\ raised.msg \in {"Missing file", "Missing section header"}
              => stderr = << <<raised.msg>> >>
        /\ raised.msg \notin {"Missing file", "Missing section header"}
              => /\ Len(stderr) > 1
                 /\ stderr[1] = <<"update_can_ips.py failed: ", raised.msg>>

\* The header of the second section is missing: the run ended with status 1
\* and the bare message.
C7_Witness ==
    /\ pc = "exit"
    /\ exit_status = 1
    /\ raised.msg = "Missing section header"
    /\ Len(order) = 1
    /\ stderr = << <<"Missing section header">> >>

\* The prefixes a response body holds: the "prefix" values, present and not
\* empty, of the entries of data.prefixes, when both keys are there.
HeldPrefixes(resp) ==
    IF resp.kind = "json" /\ "data" \in DOMAIN resp.body
                          /\ "prefixes" \in DOMAIN resp.body.data
    THEN LET held == SelectSeq(resp.body.data.prefixes,
                               LAMBDA e : "prefix" \in DOMAIN e /\ e.prefix # <<>>)
         IN  [k \in 1..Len(held) |-> held[k].prefix]
    ELSE <<>>

RECURSIVE Pooled(_)
Pooled(resps) ==
    IF resps = <<>> THEN <<>> ELSE HeldPrefixes(Head(resps)) \o Pooled(Tail(resps))

\* C9: a JSON body without "data", without "prefixes", or with entries whose
\* prefix is missing or empty is no error: a fetch fails only on a transport
\* error or a body that is no JSON, the fetched list is the prefixes present
\* and not empty, and a section whose ASNs all yield no prefixes is spliced
\* with an empty block, its header (when the file has it) followed by one
\* blank line and then the next header or the end of the file.
C9_MissingFieldsAreEmpty ==
    /\ (pc = "raised" /\ raised.class \notin {"SystemExit", "ValueError"}) =>
            fetched[Len(fetched)].kind \in {"URLError", "invalid"}
    /\ (pc \in {"fetch", "build"} /\ asn_i > 1) => prefixes = Pooled(fetched)
    /\ (/\ last # <<>>
        /\ \E k \in 1..Len(last[1].lines) : last[1].lines[k] = <<"# ", last[1].header>>
        /\ Pooled(last[1].fetched) = <<>>) =>
            /\ last[1].new_block = <<>>
            /\ \E h \in 1..(Len(lines) - 1) :
                  /\ lines[h] = <<"# ", last[1].header>>
                  /\ \A k \in 1..(h - 1) : lines[k] # lines[h]
                  /\ lines[h + 1] = <<>>
                  /\ h + 2 <= Len(lines) => BeginsSection(lines[h + 2])

\* A run met a body without "data", one without "prefixes" and one whose
\* entries have no prefix; it succeeded and left two empty sections.
C9_Witness ==
    /\ pc = "exit"
    /\ exit_status = 0
    /\ registry["AS1"] = [kind |-> "json", body |-> [status |-> "ok"]]
    /\ registry["AS2"] = [kind |-> "json", body |-> [data |-> [resource |-> "AS"]]]
    /\ registry["AS3"].kind = "json"
    /\ "data" \in DOMAIN registry["AS3"].body
    /\ "prefixes" \in DOMAIN registry["AS3"].body.data
    /\ Len(registry["AS3"].body.data.prefixes) = 2
    /\ disk.text = <<"# ", "A", "\n", "\n", "# ", "B", "\n", "\n">>

\* C10: a second run, with the registry answering as in the first, leaves
\* the file as the first run left it.
C10_SecondRunChangesNothing ==
    (run = 2 /\ pc = "exit" /\ exit_status = 0) => disk = disk0

\* The second run ended after writing; the last section, which runs to the
\* end of the file, holds two rule lines and the blank line, and the file
\* starts with a line that belongs to no section.
C10_Witness ==
    /\ run = 2
    /\ pc = "exit"
    /\ exit_status = 0
    /\ writes = 1
    /\ last[1].header = SECTION_ASNS[Len(SECTION_ASNS)].header
    /\ Len(last[1].new_block) = 2
    /\ Len(lines) >= 2
    /\ ~BeginsSection(lines[1])
    /\ lines[Len(lines)] = <<>>
    /\ lines[Len(lines) - 1] = last[1].new_block[2]

====
